---- MODULE Spec2Model ----
(***************************************************************************)
(* A model of the code cells of the notebook                               *)
(* "An Introduction to Pipelines in Scikit-Learn":                         *)
(*   - the custom transformers MyScaler, CustomSelector,                   *)
(*     CustomCategoricalImputer and CustomCategoricalEncoder;              *)
(*   - the FeatureUnion example, the minimal Pipeline example;             *)
(*   - the two Titanic cells (manual and pipeline preprocessing);          *)
(*   - the kernel namespace the code cells run in.                         *)
(* Library calls (numpy, pandas, scikit-learn) are modelled at their call  *)
(* sites by what the library does with the arguments the notebook gives.   *)
(***************************************************************************)
EXTENDS Integers, Sequences, FiniteSets, TLC

VARIABLES
    heap,     \* transformer harness: the caller's tables, by reference
    objs,     \* transformer harness: two instances of one transformer class
    fitX,     \* transformer harness: the table each instance was last fitted on
    call,     \* transformer harness: the last call, made on both instances
    fu,       \* the FeatureUnion cell: its position, X and what it printed
    pl,       \* the minimal Pipeline cell: its position, data, steps and calls
    tt,       \* the Titanic cells: two runs, each of one of the two approaches
    nb        \* the kernel: the namespace and the cell being run

vars == <<heap, objs, fitX, call, fu, pl, tt, nb>>

harnessVars == <<heap, objs, fitX, call>>

(***************************************************************************)
(* Numbers.  A cell of a table is a record                                 *)
(*    [k, n, d, r, s]                                                      *)
(* k = "num": the real number (n/d)*sqrt(r), d > 0, gcd(n,d) = 1, r        *)
(*            squarefree (r = 1 for a rational), zero is 0/1*sqrt(1);      *)
(* k = "nan": NaN (numpy's and pandas' missing value);                     *)
(* k = "inf": +infinity (n = 1) or -infinity (n = -1);                     *)
(* k = "str": the string s (a category).                                   *)
(* Arithmetic is exact: floating-point rounding is not modelled.           *)
(***************************************************************************)
Abs(i) == IF i < 0 THEN -i ELSE i

Sign(i) == IF i < 0 THEN -1 ELSE IF i = 0 THEN 0 ELSE 1

Min2(a, b) == IF a <= b THEN a ELSE b

Max2(a, b) == IF a >= b THEN a ELSE b

RECURSIVE GCD(_, _)
GCD(a, b) == IF b = 0 THEN a ELSE GCD(b, a % b)

\* the largest k' <= k with k'*k' dividing r
RECURSIVE MaxSquare(_, _)
MaxSquare(r, k) ==
    IF k <= 1 THEN 1
    ELSE IF r % (k * k) = 0 THEN k ELSE MaxSquare(r, k - 1)

RECURSIVE ISqrt(_, _)
ISqrt(r, k) == IF (k + 1) * (k + 1) > r THEN k ELSE ISqrt(r, k + 1)

NaN == [k |-> "nan", n |-> 0, d |-> 1, r |-> 1, s |-> ""]

Inf(sg) == [k |-> "inf", n |-> sg, d |-> 1, r |-> 1, s |-> ""]

Str(s) == [k |-> "str", n |-> 0, d |-> 1, r |-> 1, s |-> s]

\* (n/d)*sqrt(r) in canonical form; d # 0, r >= 0
Surd(n, d, r) ==
    IF n = 0 \/ r = 0 THEN [k |-> "num", n |-> 0, d |-> 1, r |-> 1, s |-> ""]
    ELSE LET q  == MaxSquare(r, ISqrt(r, 0))
             n1 == n * q * Sign(d)
             d1 == Abs(d)
             g  == GCD(Abs(n1), d1)
         IN  [k |-> "num", n |-> n1 \div g, d |-> d1 \div g,
              r |-> r \div (q * q), s |-> ""]

Rat(n, d) == Surd(n, d, 1)

Num(i) == Surd(i, 1, 1)

IsNum(c) == c.k = "num"

IsNaN(c) == c.k = "nan"

IsZero(c) == c.k = "num" /\ c.n = 0

\* a + b; two finite numbers must share their radical (or one is zero)
Add(a, b) ==
    IF IsNaN(a) \/ IsNaN(b) THEN NaN
    ELSE IF a.k = "inf" /\ b.k = "inf" THEN (IF a.n = b.n THEN a ELSE NaN)
    ELSE IF a.k = "inf" THEN a
    ELSE IF b.k = "inf" THEN b
    ELSE IF IsZero(a) THEN b
    ELSE IF IsZero(b) THEN a
    ELSE IF a.r = b.r THEN Surd(a.n * b.d + b.n * a.d, a.d * b.d, a.r)
    ELSE NaN

Neg(a) == IF a.k \in {"num", "inf"} THEN [a EXCEPT !.n = -a.n] ELSE a

Sub(a, b) == Add(a, Neg(b))

Mul(a, b) ==
    IF IsNaN(a) \/ IsNaN(b) THEN NaN
    ELSE IF a.k = "inf" \/ b.k = "inf"
         THEN (IF IsZero(a) \/ IsZero(b) THEN NaN ELSE Inf(Sign(a.n) * Sign(b.n)))
    ELSE Surd(a.n * b.n, a.d * b.d, a.r * b.r)

\* a / b with IEEE-754's results for a zero divisor
Div(a, b) ==
    IF IsNaN(a) \/ IsNaN(b) THEN NaN
    ELSE IF a.k = "inf" /\ b.k = "inf" THEN NaN
    ELSE IF a.k = "inf" THEN Inf(a.n * (IF b.n < 0 THEN -1 ELSE 1))
    ELSE IF b.k = "inf" THEN Num(0)
    ELSE IF IsZero(b) THEN (IF IsZero(a) THEN NaN ELSE Inf(Sign(a.n)))
    ELSE \* (an/ad)sqrt(ar) / ((bn/bd)sqrt(br)) = (an*bd)/(ad*bn*br) * sqrt(ar*br)
         Surd(a.n * b.d, a.d * b.n * b.r, a.r * b.r)

\* sqrt of a rational (the notebook takes roots of rationals only: np.std's
\* mean of squares, np.sqrt of the input); NaN for a negative one
Sqrt(a) ==
    IF IsNaN(a) THEN NaN
    ELSE IF a.k = "inf" THEN (IF a.n > 0 THEN a ELSE NaN)
    ELSE IF a.n < 0 THEN NaN
    ELSE IF a.r # 1 THEN NaN
    ELSE Surd(1, a.d, a.n * a.d)

\* a < b for two finite numbers with the same radical (rationals in particular)
Less(a, b) == Sub(a, b).k = "num" /\ Sub(a, b).n < 0

(***************************************************************************)
(* Tables.  A DataFrame or a 2-d ndarray is a record                       *)
(*    [cols, idx, rows]                                                    *)
(* cols: the column labels (strings; "0", "1", ... for an ndarray),        *)
(* idx:  the row labels (integers), rows: the rows, each a sequence of     *)
(* cells in the order of cols.                                             *)
(***************************************************************************)
NoTable == [cols |-> <<>>, idx |-> <<>>, rows |-> <<>>]

NRows(T) == Len(T.rows)

NCols(T) == Len(T.cols)

Column(T, j) == [i \in 1..NRows(T) |-> T.rows[i][j]]

ColPos(T, name) == CHOOSE j \in 1..NCols(T) : T.cols[j] = name

HasCol(T, name) == \E j \in 1..NCols(T) : T.cols[j] = name

\* Op(v), v being computed once
With(v, Op(_)) == CHOOSE r \in {Op(x) : x \in {v}} : TRUE

RECURSIVE SeqSum(_)
SeqSum(q) == IF q = <<>> THEN Num(0) ELSE Add(Head(q), SeqSum(Tail(q)))

SelectSeqIdx(q, keep(_)) ==
    LET F[i \in 0..Len(q)] ==
            IF i = 0 THEN <<>>
            ELSE IF keep(i) THEN Append(F[i - 1], q[i]) ELSE F[i - 1]
    IN  F[Len(q)]

\* the strings of the categorical columns in Python's (code point) order
SortedStrings == <<"C", "S", "female", "male">>

StrRank(s) == CHOOSE i \in 1..Len(SortedStrings) : SortedStrings[i] = s

\* Python's < on two cells of one column
CellLess(a, b) ==
    IF a.k = "str" /\ b.k = "str" THEN StrRank(a.s) < StrRank(b.s) ELSE Less(a, b)

\* the cells of the set S, ascending
RECURSIVE SortSet(_)
SortSet(S) ==
    IF S = {} THEN <<>>
    ELSE LET m == CHOOSE x \in S : \A z \in S : ~CellLess(z, x)
         IN  <<m>> \o SortSet(S \ {m})

\* the distinct cells of q that are not missing, ascending
SortedUnique(q) == SortSet({q[i] : i \in {j \in 1..Len(q) : ~IsNaN(q[j])}})

Count(q, x) == Cardinality({i \in 1..Len(q) : q[i] = x})

(***************************************************************************)
(* numpy                                                                   *)
(***************************************************************************)
\* np.mean(X, axis=0): one mean for each column (NaN for a table of no rows)
MeanOf(q) == IF q = <<>> THEN NaN ELSE Div(SeqSum(q), Num(Len(q)))

np_mean(X) == [j \in 1..NCols(X) |-> MeanOf(Column(X, j))]

\* np.std(X, axis=0): sqrt(mean(abs(x - x.mean())**2)), ddof = 0
StdOf(q) ==
    LET m == MeanOf(q)
    IN  Sqrt(MeanOf([i \in 1..Len(q) |-> Mul(Sub(q[i], m), Sub(q[i], m))]))

np_std(X) == [j \in 1..NCols(X) |-> StdOf(Column(X, j))]

\* X -= v and X /= v with v broadcast along the rows
MapRows(X, f(_, _), v) ==
    [X EXCEPT !.rows = [i \in 1..NRows(X) |->
                            [j \in 1..NCols(X) |-> f(X.rows[i][j], v[j])]]]

(***************************************************************************)
(* pandas                                                                  *)
(***************************************************************************)
\* X[[names]]: a new frame of the named columns, in the order named
Select(X, names) ==
    [cols |-> names, idx |-> X.idx,
     rows |-> [i \in 1..NRows(X) |->
                  [j \in 1..Len(names) |-> X.rows[i][ColPos(X, names[j])]]]]

\* Series.mode(): the most frequent values that are not missing, ascending
MostFrequent(q, u) ==
    SelectSeqIdx(u, LAMBDA i : \A j \in 1..Len(u) : Count(q, u[j]) <= Count(q, u[i]))

ModesOf(q) == MostFrequent(q, SortedUnique(q))

\* X.mode().iloc[0]: the first row of the frame of modes, a Series labelled by
\* X's columns, holding NaN where a column has no value; the frame of modes
\* has no row at all when no column has a value, and .iloc[0] raises
FirstRowOfModes(X, m) ==
    IF \A j \in 1..NCols(X) : m[j] = <<>>
    THEN [exc |-> "IndexError", cols |-> <<>>, vals |-> <<>>]
    ELSE [exc |-> "", cols |-> X.cols,
          vals |-> [j \in 1..NCols(X) |-> IF m[j] = <<>> THEN NaN ELSE m[j][1]]]

mode_iloc0(X) == FirstRowOfModes(X, [j \in 1..NCols(X) |-> ModesOf(Column(X, j))])

\* X.fillna(fill) for a Series fill labelled by column: a new frame in which
\* a missing cell of column c holds fill[c], where fill has a value for c
fillna(X, fill) ==
    LET val(j) ==
            IF \E k \in 1..Len(fill.cols) : fill.cols[k] = X.cols[j]
            THEN fill.vals[CHOOSE k \in 1..Len(fill.cols) : fill.cols[k] = X.cols[j]]
            ELSE NaN
    IN  [X EXCEPT !.rows =
            [i \in 1..NRows(X) |->
                [j \in 1..NCols(X) |->
                    IF IsNaN(X.rows[i][j]) /\ ~IsNaN(val(j))
                    THEN val(j) ELSE X.rows[i][j]]]]

\* the text of a category in a dummy column's label
CellName(c) == IF c.k = "str" THEN c.s ELSE ToString(c.n)

\* pd.get_dummies(X[col], prefix=col, drop_first=True): one 0/1 column for
\* each value that occurs in the column, except the smallest; a missing cell
\* gives 0 in every column
DropFirst(cats) == IF cats = <<>> THEN <<>> ELSE Tail(cats)

Dummies(q, idx, prefix, kept) ==
    [cols |-> [j \in 1..Len(kept) |-> prefix \o "_" \o CellName(kept[j])],
     idx  |-> idx,
     rows |-> [i \in 1..Len(q) |->
                  [j \in 1..Len(kept) |-> IF q[i] = kept[j] THEN Num(1) ELSE Num(0)]]]

get_dummies(X, col) ==
    Dummies(Column(X, ColPos(X, col)), X.idx, col,
            DropFirst(SortedUnique(Column(X, ColPos(X, col)))))

\* pd.concat([A, B], axis=1) of two frames with the same row labels
pd_concat(A, B) ==
    [cols |-> A.cols \o B.cols, idx |-> A.idx,
     rows |-> [i \in 1..NRows(A) |-> A.rows[i] \o B.rows[i]]]

\* X.drop(col, axis=1)
drop(X, col) ==
    LET keep(j) == X.cols[j] # col
    IN  [cols |-> SelectSeqIdx(X.cols, keep), idx |-> X.idx,
         rows |-> [i \in 1..NRows(X) |-> SelectSeqIdx(X.rows[i], keep)]]

(***************************************************************************)
(* Python objects and calls.  A transformer instance is a record; attrs    *)
(* is the set of attributes assigned so far (reading another one raises    *)
(* AttributeError).  An argument is [kind, v]: kind "absent" for an        *)
(* argument the call does not pass, "none" for None, "array" for a vector. *)
(* A method's result is a record: the instance after the call, the value   *)
(* returned (0 for None; an instance's id; a reference into the heap) and  *)
(* the exception raised ("" for none).  The heap is a sequence of tables;  *)
(* a reference is a position in it and a new object is appended.           *)
(***************************************************************************)
NoFill == [cols |-> <<>>, vals |-> <<>>]

NewObj(id, cls, categorical) ==
    [id |-> id, cls |-> cls, categorical |-> categorical, attrs |-> {},
     mean |-> <<>>, scale |-> <<>>, fill |-> NoFill]

Absent == [kind |-> "absent", v |-> <<>>]

None == [kind |-> "none", v |-> <<>>]

Array(v) == [kind |-> "array", v |-> v]

Raise(self, h, e) == [self |-> self, h |-> h, ret |-> 0, exc |-> e]

\* class MyScaler
\* (variants with a slip, used to test the properties below)
MyScaler_fit_NoReturn(self, X, y) ==
    [self |-> [self EXCEPT !.attrs = @ \cup {"mean", "scale"},
                           !.mean = np_mean(X),
                           !.scale = np_std(X)],
     ret |-> 0, exc |-> ""]

MyScaler_fit_MeanOfLabels(self, X, y) ==
    [self |-> [self EXCEPT !.attrs = @ \cup {"mean", "scale"},
                           !.mean = [j \in 1..NCols(X) |-> MeanOf(y.v)],
                           !.scale = np_std(X)],
     ret |-> self.id, exc |-> ""]

MyScaler_fit(self, X, y) ==
    [self |-> [self EXCEPT !.attrs = @ \cup {"mean", "scale"},
                           !.mean = np_mean(X),
                           !.scale = np_std(X)],
     ret |-> self.id, exc |-> ""]

MyScaler_transform_NoCopy(self, h, X) ==
    IF ~({"mean", "scale"} \subseteq self.attrs) THEN Raise(self, h, "AttributeError")
    ELSE IF Len(self.mean) # NCols(h[X]) THEN Raise(self, h, "ValueError")
    ELSE [self |-> self,
          h |-> [h EXCEPT ![X] = MapRows(MapRows(@, Sub, self.mean), Div, self.scale)],
          ret |-> X, exc |-> ""]

MyScaler_transform_NoCenter(self, h, X) ==
    IF ~({"mean", "scale"} \subseteq self.attrs) THEN Raise(self, h, "AttributeError")
    ELSE IF Len(self.mean) # NCols(h[X]) THEN Raise(self, h, "ValueError")
    ELSE [self |-> self, h |-> Append(h, MapRows(h[X], Div, self.scale)),
          ret |-> Len(h) + 1, exc |-> ""]

MyScaler_transform(self, h, X) ==
    IF ~({"mean", "scale"} \subseteq self.attrs) THEN Raise(self, h, "AttributeError")
    ELSE IF Len(self.mean) # NCols(h[X]) THEN Raise(self, h, "ValueError")
    ELSE LET Xt == Len(h) + 1
             h1 == Append(h, h[X])
             h2 == [h1 EXCEPT ![Xt] = MapRows(@, Sub, self.mean)]
             h3 == [h2 EXCEPT ![Xt] = MapRows(@, Div, self.scale)]
         IN  [self |-> self, h |-> h3, ret |-> Xt, exc |-> ""]

\* class CustomSelector
CategoricalFeatures == <<"Sex", "Embarked", "Pclass">>

NumericalFeatures == <<"Fare", "Age", "SibSp", "Parch">>

CustomSelector_fit(self, X, y) == [self |-> self, ret |-> self.id, exc |-> ""]

CustomSelector_transform(self, h, X) ==
    LET names == IF self.categorical THEN CategoricalFeatures ELSE NumericalFeatures
    IN  IF \E j \in 1..Len(names) : ~HasCol(h[X], names[j])
        THEN Raise(self, h, "KeyError")
        ELSE [self |-> self, h |-> Append(h, Select(h[X], names)),
              ret |-> Len(h) + 1, exc |-> ""]

\* class CustomCategoricalImputer
\* self.fill = m; return self
SetFill(self, m) ==
    IF m.exc # "" THEN [self |-> self, ret |-> 0, exc |-> m.exc]
    ELSE [self |-> [self EXCEPT !.attrs = @ \cup {"fill"},
                                !.fill = [cols |-> m.cols, vals |-> m.vals]],
          ret |-> self.id, exc |-> ""]

CustomCategoricalImputer_fit(self, X, y) == SetFill(self, mode_iloc0(X))

CustomCategoricalImputer_transform(self, h, X) ==
    IF "fill" \notin self.attrs THEN Raise(self, h, "AttributeError")
    ELSE [self |-> self, h |-> Append(h, fillna(h[X], self.fill)),
          ret |-> Len(h) + 1, exc |-> ""]

\* class CustomCategoricalEncoder
CustomCategoricalEncoder_fit(self, X, y) == [self |-> self, ret |-> self.id, exc |-> ""]

\* one pass of the loop body: X = pd.concat([X, dummies], axis=1) binds the
\* local name X to a new frame, and X.drop(col, inplace=True) changes that one
\* (the new frame is the last object of the heap returned)
EncodeColumn(h, X, col) ==
    [Append(h, pd_concat(h[X], get_dummies(h[X], col)))
        EXCEPT ![Len(h) + 1] = drop(@, col)]

RECURSIVE EncodeLoop(_, _, _, _)
EncodeLoop(self, h, X, todo) ==
    IF todo = <<>> THEN [self |-> self, h |-> h, ret |-> X, exc |-> ""]
    ELSE IF ~HasCol(h[X], Head(todo)) THEN Raise(self, h, "KeyError")
    ELSE With(EncodeColumn(h, X, Head(todo)),
              LAMBDA h1 : EncodeLoop(self, h1, Len(h1), Tail(todo)))

CustomCategoricalEncoder_transform(self, h, X) ==
    EncodeLoop(self, h, X, CategoricalFeatures)

\* whether the class's fit declares a default for y
fit_y_default(cls) == cls # "MyScaler"

\* obj.fit(X) or obj.fit(X, y): the arguments are bound, then the body runs
Call_fit(obj, X, y) ==
    IF y.kind = "absent" /\ ~fit_y_default(obj.cls)
    THEN [self |-> obj, ret |-> 0, exc |-> "TypeError"]
    ELSE LET yb == IF y.kind = "absent" THEN None ELSE y
         IN  CASE obj.cls = "MyScaler" -> MyScaler_fit(obj, X, yb)
               [] obj.cls = "CustomSelector" -> CustomSelector_fit(obj, X, yb)
               [] obj.cls = "CustomCategoricalImputer" ->
                      CustomCategoricalImputer_fit(obj, X, yb)
               [] obj.cls = "CustomCategoricalEncoder" ->
                      CustomCategoricalEncoder_fit(obj, X, yb)

\* obj.transform(X) or obj.transform(X, y): transform declares (self, X) only
Call_transform(obj, h, X, y) ==
    IF y.kind # "absent" THEN Raise(obj, h, "TypeError")
    ELSE CASE obj.cls = "MyScaler" -> MyScaler_transform(obj, h, X)
           [] obj.cls = "CustomSelector" -> CustomSelector_transform(obj, h, X)
           [] obj.cls = "CustomCategoricalImputer" ->
                  CustomCategoricalImputer_transform(obj, h, X)
           [] obj.cls = "CustomCategoricalEncoder" ->
                  CustomCategoricalEncoder_transform(obj, h, X)

(***************************************************************************)
(* Inputs.  Tables are built from a pool of rows, MaxRows rows at most.    *)
(***************************************************************************)
MaxRows == 3

\* rows of a numeric array of two columns, for MyScaler
ArrayRows == {<<Num(0), Num(1)>>, <<Num(1), Num(1)>>, <<Num(3), Num(0)>>}

\* the columns of df_features once Survived is popped
FeatureNames == <<"Sex", "Embarked", "Pclass", "Fare", "Age", "SibSp", "Parch">>

\* passengers: values are missing in Fare, Age and Embarked only
Passengers ==
    { <<Str("male"),   Str("S"), Num(3), Num(1), Num(2), Num(1), Num(0)>>,
      <<Str("female"), Str("C"), Num(1), Num(4), NaN,    Num(1), Num(0)>>,
      <<Str("female"), NaN,      Num(2), NaN,    Num(4), Num(0), Num(2)>> }

\* new data, seen by transform only
NewArrayRows == {<<Num(2), Num(1)>>}

NewPassengers ==
    { <<Str("male"), NaN, Num(3), NaN, Num(1), Num(0), Num(0)>> }

RowSeqs(pool, lo, hi) == UNION {[1..n -> pool] : n \in lo..hi}

\* a table with the default row labels 0, 1, ...
MakeTable(cols, rows) ==
    [cols |-> cols, idx |-> [i \in 1..Len(rows) |-> i - 1], rows |-> rows]

Arrays(pool, lo, hi) == {MakeTable(<<"0", "1">>, q) : q \in RowSeqs(pool, lo, hi)}

Frames(pool, lo, hi) == {MakeTable(FeatureNames, q) : q \in RowSeqs(pool, lo, hi)}

\* the tables a transformer of class cls is given: arrays for MyScaler, the
\* frame of all features for CustomSelector, the categorical features (the
\* selector's output) for the imputer and the encoder
InputsOf(cls, new, lo, hi) ==
    CASE cls = "MyScaler" ->
             Arrays(IF new THEN NewArrayRows ELSE ArrayRows, lo, hi)
      [] cls = "CustomSelector" ->
             Frames(IF new THEN NewPassengers ELSE Passengers, lo, hi)
      [] OTHER ->
             {Select(F, CategoricalFeatures) :
                 F \in Frames(IF new THEN NewPassengers ELSE Passengers, lo, hi)}

\* label vectors for a table: all 0 and all 1
Labels(X, v) == Array([i \in 1..NRows(X) |-> Num(v)])

(***************************************************************************)
(* The transformer harness.  Two instances of one class receive the same   *)
(* calls on the caller's two tables (heap[1], of up to MaxRows rows, and   *)
(* heap[2], new data of one row).  fit is given labels of 1 on the second  *)
(* instance, and labels of 0 or no label argument on the first.            *)
(***************************************************************************)
Variants ==
    { <<"MyScaler", FALSE>>, <<"CustomSelector", TRUE>>, <<"CustomSelector", FALSE>>,
      <<"CustomCategoricalImputer", FALSE>>, <<"CustomCategoricalEncoder", FALSE>> }

CallerRefs == {1, 2}

NoCall ==
    [op |-> "none", X |-> 0, y |-> <<Absent, Absent>>, ret |-> <<0, 0>>,
     exc |-> <<"", "">>, out |-> <<NoTable, NoTable>>, before |-> <<>>,
     selfBefore |-> <<>>]

\* a cell that is not run
Idle == [pc |-> "idle"]

Init ==
    /\ fu = Idle
    /\ pl = Idle
    /\ tt = Idle
    /\ nb = Idle
    /\ \E v \in Variants :
        /\ objs = <<NewObj(1, v[1], v[2]), NewObj(2, v[1], v[2])>>
        /\ \E A \in InputsOf(v[1], FALSE, 1, MaxRows), B \in InputsOf(v[1], TRUE, 1, 1) :
               heap = <<A, B>>
        /\ fitX = <<NoTable, NoTable>>
        /\ call = NoCall

\* both instances are fitted on the table X, with labels ya and yb
Fitted(X, ya, yb, r1, r2) ==
        /\ objs' = <<r1.self, r2.self>>
        /\ fitX' = <<IF r1.exc = "" THEN heap[X] ELSE fitX[1],
                     IF r2.exc = "" THEN heap[X] ELSE fitX[2]>>
        /\ call' = [op |-> "fit", X |-> X, y |-> <<ya, yb>>,
                    ret |-> <<r1.ret, r2.ret>>, exc |-> <<r1.exc, r2.exc>>,
                    out |-> <<NoTable, NoTable>>, before |-> heap,
                    selfBefore |-> <<>>]
        /\ UNCHANGED <<heap, fu, pl, tt, nb>>

DoFit(X, ya, yb) ==
    Fitted(X, ya, yb, Call_fit(objs[1], heap[X], ya), Call_fit(objs[2], heap[X], yb))

Fit ==
    \E X \in CallerRefs :
        \E ya \in {Absent, Labels(heap[X], 0)} :
            DoFit(X, ya, Labels(heap[X], 1))

\* the reference a call returned, as the caller sees it: 0 for none, the
\* caller's own reference, or 3 for an object made by the call
RetRef(r) == IF r.ret \in CallerRefs \cup {0} THEN r.ret ELSE 3

RetTable(r) == IF r.ret = 0 THEN NoTable ELSE r.h[r.ret]

\* both instances transform the table X, one after the other
Transformed(X, y, r1, r2) ==
        /\ objs' = <<r1.self, r2.self>>
        /\ heap' = SubSeq(r2.h, 1, 2)
        /\ call' = [op |-> "transform", X |-> X, y |-> <<y, y>>,
                    ret |-> <<RetRef(r1), RetRef(r2)>>, exc |-> <<r1.exc, r2.exc>>,
                    out |-> <<RetTable(r1), RetTable(r2)>>, before |-> heap,
                    selfBefore |-> objs]
        /\ UNCHANGED <<fitX, fu, pl, tt, nb>>

Second(X, y, r1) == Transformed(X, y, r1, Call_transform(objs[2], SubSeq(r1.h, 1, 2), X, y))

DoTransform(X, y) == Second(X, y, Call_transform(objs[1], heap, X, y))

Transform == \E X \in CallerRefs : DoTransform(X, Absent)

TransformWithLabels == \E X \in CallerRefs : DoTransform(X, Labels(heap[X], 1))

Next == Fit \/ Transform \/ TransformWithLabels

Spec == Init /\ [][Next]_vars

(***************************************************************************)
(* Properties of the custom transformers (checked under Spec).             *)
(***************************************************************************)
Instances == {1, 2}

FitCalled == call.op = "fit"

TransformCalled == call.op = "transform"

\* what fit stores on an instance
Stats(obj) == [attrs |-> obj.attrs, mean |-> obj.mean, scale |-> obj.scale,
               fill |-> obj.fill]

\* C1: for each of the four custom transformers and every input table, a
\* call of fit that is given the table and labels completes, and every call of
\* fit that completes returns the instance it was called on (not None, not
\* another object), whether or not fit stores statistics.
C1_FitReturnsSelf ==
    FitCalled =>
        \A i \in Instances :
            /\ call.y[i].kind = "array" => call.exc[i] = ""
            /\ call.exc[i] = "" => call.ret[i] = objs[i].id

\* a fit that stored statistics returned the instance
C1_Witness ==
    /\ FitCalled
    /\ objs[1].cls = "CustomCategoricalImputer"
    /\ call.exc = <<"", "">>
    /\ call.ret = <<1, 2>>
    /\ "fill" \in objs[1].attrs

\* C2: the label argument of fit is optional for every custom transformer:
\* fit called with a table only (instance 1) completes without an error and
\* stores the same statistics as the call that passes labels (instance 2).
C2_LabelsOptional ==
    (FitCalled /\ call.y[1].kind = "absent" /\ call.y[2].kind = "array") =>
        /\ call.exc[1] = ""
        /\ Stats(objs[1]) = Stats(objs[2])

\* C3: transform takes no label argument, and its result depends only on the
\* table transformed and on what the last fit stored: two instances fitted on
\* the same table with different labels (0s for instance 1, 1s for instance
\* 2) return equal results for the same table.
C3_TransformIgnoresLabels ==
    TransformCalled =>
        /\ \A i \in Instances : call.y[i].kind # "absent" => call.exc[i] = "TypeError"
        /\ (call.exc = <<"", "">> /\ fitX[1] = fitX[2]) => call.out[1] = call.out[2]

\* both scalers were fitted on one table and transformed another one
C3_Witness ==
    /\ TransformCalled
    /\ objs[1].cls = "MyScaler"
    /\ call.exc = <<"", "">>
    /\ fitX[1] = fitX[2]
    /\ fitX[1] # NoTable
    /\ fitX[1] # call.before[call.X]
    /\ call.out[1] = call.out[2]

\* C4: transform returns a new table and leaves the caller's table as it was
\* (same columns, same cells); what the transformer stored is unchanged too.
C4_TransformFrame ==
    TransformCalled =>
        /\ heap = call.before
        /\ objs = call.selfBefore
        /\ \A i \in Instances : call.exc[i] = "" => call.ret[i] = 3

\* the encoder, whose loop drops columns in place, has returned a table
C4_Witness ==
    /\ TransformCalled
    /\ objs[1].cls = "CustomCategoricalEncoder"
    /\ call.exc = <<"", "">>
    /\ call.ret = <<3, 3>>
    /\ call.out[1] # call.before[call.X]
    /\ heap = call.before

\* the variance of a column, and what "mean zero, variance one" means for it
Variance(q) ==
    MeanOf([i \in 1..Len(q) |-> Mul(Sub(q[i], MeanOf(q)), Sub(q[i], MeanOf(q)))])

Standardized(q) == MeanOf(q) = Num(0) /\ Variance(q) = Num(1)

IsConstant(q) == \A i \in 1..Len(q) : q[i] = q[1]

\* instance i is a scaler that was fitted on the table it has just transformed
ScaledOwnData(i) ==
    /\ TransformCalled
    /\ objs[i].cls = "MyScaler"
    /\ call.exc[i] = ""
    /\ fitX[i] = call.before[call.X]

\* the stored mean and scale are the mean and the standard deviation of the
\* columns of X
StoresMeanAndStd(obj, X) ==
    \A j \in 1..NCols(X) :
        /\ Mul(Num(NRows(X)), obj.mean[j]) = SeqSum(Column(X, j))
        /\ Mul(obj.scale[j], obj.scale[j]) = Variance(Column(X, j))
        /\ obj.scale[j].n >= 0

\* C5 as stated: for every X, a column with equal values included, fit on X
\* and then transform of X give mean zero and variance one in every column.
C5_UnitVarianceEveryX ==
    \A i \in Instances :
        ScaledOwnData(i) =>
            /\ StoresMeanAndStd(objs[i], fitX[i])
            /\ \A j \in 1..NCols(call.out[i]) : Standardized(Column(call.out[i], j))

\* C5 as amended: the stored mean and scale are the columns' mean and
\* standard deviation; every column of X that is not constant comes out with
\* mean zero and variance one; a constant column has standard deviation 0,
\* is divided by it, and does not come out with mean zero and variance one.
C5_UnitVarianceUnlessConstant ==
    \A i \in Instances :
        ScaledOwnData(i) =>
            /\ StoresMeanAndStd(objs[i], fitX[i])
            /\ \A j \in 1..NCols(call.out[i]) :
                   IF IsConstant(Column(fitX[i], j))
                   THEN /\ objs[i].scale[j] = Num(0)
                        /\ ~Standardized(Column(call.out[i], j))
                   ELSE Standardized(Column(call.out[i], j))

\* a column with an irrational standard deviation was scaled, beside a
\* constant one
C5_Witness ==
    /\ ScaledOwnData(1)
    /\ NRows(fitX[1]) = 3
    /\ objs[1].scale[1].r # 1
    /\ IsConstant(Column(fitX[1], 2))
    /\ Standardized(Column(call.out[1], 1))

(***************************************************************************)
(* The FeatureUnion cell:                                                  *)
(*    X = np.random.random((5,1))                                          *)
(*    feat_union = FeatureUnion([identity, sqrt, square])                  *)
(*    print(feat_union.fit_transform(X))                                   *)
(* X is any array of 1..MaxRows rows and one or two columns of values of   *)
(* [0, 1).                                                                 *)
(***************************************************************************)
\* rows that np.random.random can give, of one and of two columns
UnitRows1 == {<<Num(0)>>, <<Rat(1, 4)>>, <<Rat(1, 2)>>}

UnitRows2 == {<<Num(0), Rat(1, 2)>>, <<Rat(1, 4), Num(0)>>, <<Rat(1, 2), Rat(1, 4)>>}

\* an ndarray: columns and rows are numbered from 0
AsArray(rows, ncols) ==
    [cols |-> [j \in 1..ncols |-> ToString(j - 1)],
     idx  |-> [i \in 1..Len(rows) |-> i - 1],
     rows |-> rows]

RandomArrays ==
    {AsArray(q, 1) : q \in RowSeqs(UnitRows1, 1, MaxRows)} \cup
    {AsArray(q, 2) : q \in RowSeqs(UnitRows2, 1, MaxRows)}

MapCells(X, f(_)) ==
    [X EXCEPT !.rows = [i \in 1..NRows(X) |->
                            [j \in 1..NCols(X) |-> f(X.rows[i][j])]]]

\* FunctionTransformer(func).fit_transform(X): func(X), or X for no func
FunctionTransformer_fit_transform(func, X) ==
    CASE func = "None" -> X
      [] func = "np.sqrt" -> MapCells(X, Sqrt)
      [] func = "lambda x: x**2" -> MapCells(X, LAMBDA x : Mul(x, x))

\* np.hstack(Xs): the columns of the arrays, side by side
RECURSIVE np_hstack(_)
np_hstack(Xs) ==
    IF Len(Xs) = 1 THEN Xs[1]
    ELSE AsArray([i \in 1..NRows(Xs[1]) |->
                     Xs[1].rows[i] \o np_hstack(Tail(Xs)).rows[i]],
                 NCols(Xs[1]) + NCols(np_hstack(Tail(Xs))))

\* the transformer list of feat_union: (name, func of the FunctionTransformer)
feat_union_Swapped ==
    << <<"identity", "None">>, <<"square", "lambda x: x**2">>, <<"sqrt", "np.sqrt">> >>

feat_union ==
    << <<"identity", "None">>, <<"sqrt", "np.sqrt">>, <<"square", "lambda x: x**2">> >>

\* FeatureUnion.fit_transform(X): every transformer is fitted on X and
\* transforms X; the results are stacked in the order of the list
FeatureUnion_fit_transform(transformer_list, X) ==
    np_hstack([k \in 1..Len(transformer_list) |->
                  FunctionTransformer_fit_transform(transformer_list[k][2], X)])

HarnessIdle ==
    /\ heap = <<>>
    /\ objs = <<>>
    /\ fitX = <<>>
    /\ call = NoCall

InitUnion ==
    /\ HarnessIdle
    /\ pl = Idle
    /\ tt = Idle
    /\ nb = Idle
    /\ fu = [pc |-> "start", X |-> NoTable, out |-> NoTable]

MakeX ==
    /\ fu.pc = "start"
    /\ \E A \in RandomArrays : fu' = [fu EXCEPT !.pc = "made", !.X = A]
    /\ UNCHANGED <<harnessVars, pl, tt, nb>>

FitTransformUnion ==
    /\ fu.pc = "made"
    /\ fu' = [fu EXCEPT !.pc = "printed",
                        !.out = FeatureUnion_fit_transform(feat_union, fu.X)]
    /\ UNCHANGED <<harnessVars, pl, tt, nb>>

NextUnion == MakeX \/ FitTransformUnion

SpecUnion == InitUnion /\ [][NextUnion]_vars

\* C6: for an input X of r rows and c columns, fit_transform returns r rows
\* and 3*c columns: X itself, then the element-wise square root of X (the
\* non-negative number whose square is the element), then the element-wise
\* square of X, the order in which the transformers are listed.
C6_UnionBlocks ==
    fu.pc = "printed" =>
        LET r == NRows(fu.X)
            c == NCols(fu.X)
        IN  /\ NRows(fu.out) = r
            /\ NCols(fu.out) = 3 * c
            /\ \A i \in 1..r :
                   /\ Len(fu.out.rows[i]) = 3 * c
                   /\ \A j \in 1..c :
                          /\ fu.out.rows[i][j] = fu.X.rows[i][j]
                          /\ Mul(fu.out.rows[i][c + j], fu.out.rows[i][c + j])
                                = fu.X.rows[i][j]
                          /\ fu.out.rows[i][c + j].n >= 0
                          /\ fu.out.rows[i][2 * c + j]
                                = Mul(fu.X.rows[i][j], fu.X.rows[i][j])

\* an array of two columns and two rows at least, one root irrational, was
\* printed
C6_Witness ==
    /\ fu.pc = "printed"
    /\ NCols(fu.X) = 2
    /\ NRows(fu.X) >= 2
    /\ NCols(fu.out) = 6
    /\ \E i \in 1..NRows(fu.out) : fu.out.rows[i][3].r # 1

(***************************************************************************)
(* scikit-learn's estimators, as the notebook constructs them:             *)
(* Imputer(strategy='median'), StandardScaler(), LogisticRegression() and  *)
(* RandomForestClassifier().  An estimator is a record; the two            *)
(* classifiers are opaque: a fitted one remembers what it was fitted on    *)
(* and a prediction is the pair of the fitted model and the row.           *)
(***************************************************************************)
RECURSIVE InsertSorted(_, _)
InsertSorted(x, s) ==
    IF s = <<>> THEN <<x>>
    ELSE IF Less(x, Head(s)) THEN <<x>> \o s
    ELSE <<Head(s)>> \o InsertSorted(x, Tail(s))

RECURSIVE SortNums(_)
SortNums(q) == IF q = <<>> THEN <<>> ELSE InsertSorted(Head(q), SortNums(Tail(q)))

NotMissing(q) == SelectSeq(q, LAMBDA c : ~IsNaN(c))

MedianSorted(s) ==
    IF s = <<>> THEN NaN
    ELSE IF Len(s) % 2 = 1 THEN s[(Len(s) + 1) \div 2]
    ELSE Div(Add(s[Len(s) \div 2], s[Len(s) \div 2 + 1]), Num(2))

\* the median of the values of q that are not missing (NaN if there is none)
MedianOf(q) == MedianSorted(SortNums(NotMissing(q)))

NewEstimator(cls) ==
    [cls |-> cls, fitted |-> FALSE, statistics_ |-> <<>>, mean_ |-> <<>>,
     scale_ |-> <<>>, trained_on |-> <<>>]

\* Imputer(strategy='median').fit(X): the median of each column
Imputer_fit(self, X) ==
    [self EXCEPT !.fitted = TRUE,
                 !.statistics_ = [j \in 1..NCols(X) |-> MedianOf(Column(X, j))]]

\* a row with its missing values replaced by the column's statistic; a
\* column whose statistic is NaN (no value was seen by fit) is dropped
RECURSIVE ImputeRow(_, _)
ImputeRow(row, st) ==
    IF row = <<>> THEN <<>>
    ELSE (IF IsNaN(Head(st)) THEN <<>>
          ELSE <<IF IsNaN(Head(row)) THEN Head(st) ELSE Head(row)>>)
         \o ImputeRow(Tail(row), Tail(st))

Imputer_transform(self, X) ==
    AsArray([i \in 1..NRows(X) |-> ImputeRow(X.rows[i], self.statistics_)],
            Cardinality({j \in 1..Len(self.statistics_) : ~IsNaN(self.statistics_[j])}))

\* StandardScaler: a scale of zero is replaced by one
HandleZeros(scale) == [j \in 1..Len(scale) |-> IF IsZero(scale[j]) THEN Num(1) ELSE scale[j]]

StandardScaler_fit(self, X) ==
    [self EXCEPT !.fitted = TRUE, !.mean_ = np_mean(X),
                 !.scale_ = HandleZeros(np_std(X))]

StandardScaler_transform(self, X) ==
    AsArray([i \in 1..NRows(X) |->
                [j \in 1..NCols(X) |->
                    Div(Sub(X.rows[i][j], self.mean_[j]), self.scale_[j])]],
            NCols(X))

Classifier_fit(self, X, y) ==
    [self EXCEPT !.fitted = TRUE, !.trained_on = <<X.rows, y>>]

Classifier_predict(self, X) ==
    [i \in 1..NRows(X) |-> [model |-> self.trained_on, x |-> X.rows[i]]]

CustomClasses ==
    {"MyScaler", "CustomSelector", "CustomCategoricalImputer", "CustomCategoricalEncoder"}

\* the table a transform call returned
Returned(r) == r.h[r.ret]

Estimator_fit(self, X, y) ==
    CASE self.cls = "Imputer" -> Imputer_fit(self, X)
      [] self.cls = "StandardScaler" -> StandardScaler_fit(self, X)
      [] self.cls \in CustomClasses -> Call_fit(self, X, Array(y)).self
      [] OTHER -> Classifier_fit(self, X, y)

Estimator_transform(self, X) ==
    CASE self.cls = "Imputer" -> Imputer_transform(self, X)
      [] self.cls = "StandardScaler" -> StandardScaler_transform(self, X)
      [] self.cls \in CustomClasses ->
             With(<<X>>, LAMBDA h : Returned(Call_transform(self, h, 1, Absent)))

\* fit_transform of a transformer (TransformerMixin): fit(X, y).transform(X)
\* (a variant with a slip first)
fit_transform_FitOnly(self, X, y) ==
    [est |-> Estimator_fit(self, X, y), out |-> X]

fit_transform(self, X, y) ==
    With(Estimator_fit(self, X, y),
         LAMBDA est : [est |-> est, out |-> Estimator_transform(est, X)])

(***************************************************************************)
(* train_test_split: a permutation of the rows is drawn; the first n_test  *)
(* of it are the test rows, the next n_train the training rows.            *)
(***************************************************************************)
\* the default test_size = 0.25: ceil(0.25 * n) and floor(0.75 * n) rows
n_test(n) == (n + 3) \div 4

n_train(n) == (3 * n) \div 4

\* permutations of 1..n that the generator may draw: the rotations of
\* 1..n and of n..1
Rotations(n) ==
    {[i \in 1..n |-> ((i - 1 + k) % n) + 1] : k \in 0..(n - 1)} \cup
    {[i \in 1..n |-> n - ((i - 1 + k) % n)] : k \in 0..(n - 1)}

ind_test(perm) == SubSeq(perm, 1, n_test(Len(perm)))

ind_train(perm) ==
    SubSeq(perm, n_test(Len(perm)) + 1, n_test(Len(perm)) + n_train(Len(perm)))

\* X[ind] for an ndarray
TakeArray(X, ind) == AsArray([k \in 1..Len(ind) |-> X.rows[ind[k]]], NCols(X))

TakeSeq(y, ind) == [k \in 1..Len(ind) |-> y[ind[k]]]

(***************************************************************************)
(* The minimal Pipeline cell:                                              *)
(*    pipeline = Pipeline([imputer, std_scaler, logistic_model])           *)
(*    X, y = make_classification(n_features=2, ...)                        *)
(*    X_train, X_test, y_train, y_test = train_test_split(X, y)            *)
(*    pipeline.fit(X_train, y_train); y_pred = pipeline.predict(X_test)    *)
(* Pipeline.fit calls fit_transform on each step but the last, passing the *)
(* output on, and fit on the last; Pipeline.predict calls transform on     *)
(* each step but the last and predict on the last.  pl.log lists the calls *)
(* made on the steps.                                                      *)
(***************************************************************************)
pipeline ==
    << <<"imputer", "Imputer">>, <<"std_scaler", "StandardScaler">>,
       <<"logistic_model", "LogisticRegression">> >>

\* the number of rows make_classification returns (100 in the notebook)
n_samples == MaxRows + 1

\* two features, no value missing
ClassificationArrays == Arrays(ArrayRows, n_samples, n_samples)

ClassLabels(n) ==
    {[i \in 1..n |-> i % 2], [i \in 1..n |-> IF 2 * i <= n THEN 0 ELSE 1]}

Event(i, op, est, in, out) ==
    [step |-> i, op |-> op, est |-> est, in |-> in, out |-> out]

InitPipe ==
    /\ HarnessIdle
    /\ fu = Idle
    /\ tt = Idle
    /\ nb = Idle
    /\ pl = [pc |-> "start", X |-> NoTable, y |-> <<>>,
             X_train |-> NoTable, X_test |-> NoTable,
             y_train |-> <<>>, y_test |-> <<>>,
             steps |-> [i \in 1..Len(pipeline) |-> NewEstimator(pipeline[i][2])],
             i |-> 0, Xt |-> NoTable, after_fit |-> <<>>, log |-> <<>>,
             y_pred |-> <<>>]

MakeClassification ==
    /\ pl.pc = "start"
    /\ \E A \in ClassificationArrays, l \in ClassLabels(n_samples) :
           pl' = [pl EXCEPT !.pc = "made", !.X = A, !.y = l]
    /\ UNCHANGED <<harnessVars, fu, tt, nb>>

\* train_test_split(X, y): no random_state, any permutation may be drawn
TrainTestSplit ==
    /\ pl.pc = "made"
    /\ \E perm \in Rotations(NRows(pl.X)) :
           pl' = [pl EXCEPT !.pc = "split",
                            !.X_train = TakeArray(pl.X, ind_train(perm)),
                            !.X_test = TakeArray(pl.X, ind_test(perm)),
                            !.y_train = TakeSeq(pl.y, ind_train(perm)),
                            !.y_test = TakeSeq(pl.y, ind_test(perm))]
    /\ UNCHANGED <<harnessVars, fu, tt, nb>>

\* pipeline.fit(X_train, y_train) is entered
FitCall ==
    /\ pl.pc = "split"
    /\ pl' = [pl EXCEPT !.pc = "fit", !.i = 1, !.Xt = pl.X_train]
    /\ UNCHANGED <<harnessVars, fu, tt, nb>>

FitStepDone(r) ==
    pl' = [pl EXCEPT !.steps[pl.i] = r.est, !.Xt = r.out, !.i = pl.i + 1,
                     !.log = pl.log \o
                         << Event(pl.i, "fit", r.est, pl.Xt, NoTable),
                            Event(pl.i, "transform", r.est, pl.Xt, r.out) >>]

\* a step that is not the last: fit_transform, the output is passed on
FitStep ==
    /\ pl.pc = "fit"
    /\ pl.i < Len(pipeline)
    /\ FitStepDone(fit_transform(pl.steps[pl.i], pl.Xt, pl.y_train))
    /\ UNCHANGED <<harnessVars, fu, tt, nb>>

FitFinalDone(est) ==
    pl' = [pl EXCEPT !.pc = "fitted", !.steps[pl.i] = est,
                     !.after_fit = [pl.steps EXCEPT ![pl.i] = est],
                     !.log = Append(pl.log, Event(pl.i, "fit", est, pl.Xt, NoTable))]

\* the last step is fitted on the output of the step before it
FitFinal ==
    /\ pl.pc = "fit"
    /\ pl.i = Len(pipeline)
    /\ FitFinalDone(Estimator_fit(pl.steps[pl.i], pl.Xt, pl.y_train))
    /\ UNCHANGED <<harnessVars, fu, tt, nb>>

\* pipeline.predict(X_test) is entered
PredictCall ==
    /\ pl.pc = "fitted"
    /\ pl' = [pl EXCEPT !.pc = "predict", !.i = 1, !.Xt = pl.X_test]
    /\ UNCHANGED <<harnessVars, fu, tt, nb>>

PredictStepDone(out) ==
    pl' = [pl EXCEPT !.Xt = out, !.i = pl.i + 1,
                     !.log = Append(pl.log,
                                Event(pl.i, "transform", pl.steps[pl.i], pl.Xt, out))]

PredictStep ==
    /\ pl.pc = "predict"
    /\ pl.i < Len(pipeline)
    /\ PredictStepDone(Estimator_transform(pl.steps[pl.i], pl.Xt))
    /\ UNCHANGED <<harnessVars, fu, tt, nb>>

\* the last step predicts; y_pred is printed
PredictFinal ==
    /\ pl.pc = "predict"
    /\ pl.i = Len(pipeline)
    /\ pl' = [pl EXCEPT !.pc = "printed",
                        !.y_pred = Classifier_predict(pl.steps[pl.i], pl.Xt),
                        !.log = Append(pl.log,
                                   Event(pl.i, "predict", pl.steps[pl.i], pl.Xt, NoTable))]
    /\ UNCHANGED <<harnessVars, fu, tt, nb>>

NextPipe ==
    \/ MakeClassification
    \/ TrainTestSplit
    \/ FitCall
    \/ FitStep
    \/ FitFinal
    \/ PredictCall
    \/ PredictStep
    \/ PredictFinal

SpecPipe == InitPipe /\ [][NextPipe]_vars

\* the calls of pipeline.fit, then of pipeline.predict, on the steps
ExpectedCalls ==
    << <<1, "fit">>, <<1, "transform">>, <<2, "fit">>, <<2, "transform">>,
       <<3, "fit">>,
       <<1, "transform">>, <<2, "transform">>, <<3, "predict">> >>

FitCalls == 2 * Len(pipeline) - 1

\* the data the k-th call must be given
ExpectedInput(k) ==
    IF k = 1 THEN pl.X_train
    ELSE IF k = FitCalls + 1 THEN pl.X_test
    ELSE IF pl.log[k - 1].op = "fit" THEN pl.log[k - 1].in
    ELSE pl.log[k - 1].out

ColumnsCentred(X) == \A j \in 1..NCols(X) : IsZero(MeanOf(Column(X, j)))

NoMissing(X) == \A i \in 1..NRows(X) : \A j \in 1..NCols(X) : ~IsNaN(X.rows[i][j])

\* C7: pipeline.fit runs the steps in the listed order: each step but the
\* last is fitted and then transforms what it was fitted on, its output is
\* the next step's input, and the last step is only fitted, on the output
\* of the step before it (imputed and scaled data); pipeline.predict
\* passes the test data through the fitted steps in the same order, and
\* the steps stay as fit left them.
C7_StepsInOrder ==
    pl.pc \in {"fit", "fitted", "predict", "printed"} =>
        /\ Len(pl.log) <= Len(ExpectedCalls)
        /\ \A k \in 1..Len(pl.log) :
               /\ <<pl.log[k].step, pl.log[k].op>> = ExpectedCalls[k]
               /\ pl.log[k].in = ExpectedInput(k)
               /\ pl.log[k].op = "transform" =>
                      pl.log[k].out = Estimator_transform(pl.log[k].est, pl.log[k].in)
               /\ pl.log[k].op = "fit" =>
                      pl.log[k].est =
                          Estimator_fit(NewEstimator(pipeline[pl.log[k].step][2]),
                                        pl.log[k].in, pl.y_train)
               /\ k > FitCalls => pl.log[k].est = pl.after_fit[pl.log[k].step]
        /\ pl.pc = "fit" => Len(pl.log) < FitCalls
        /\ pl.pc = "fitted" => Len(pl.log) = FitCalls
        /\ pl.pc \in {"fitted", "predict", "printed"} =>
               /\ pl.steps = pl.after_fit
               /\ \A i \in 1..Len(pipeline) : pl.steps[i].fitted
               /\ NoMissing(pl.log[FitCalls].in)
               /\ ColumnsCentred(pl.log[FitCalls].in)
               /\ pl.log[FitCalls].in =
                      StandardScaler_transform(pl.steps[2],
                          Imputer_transform(pl.steps[1], pl.X_train))
        /\ pl.pc = "printed" =>
               /\ Len(pl.log) = Len(ExpectedCalls)
               /\ pl.y_pred =
                      Classifier_predict(pl.after_fit[3],
                          StandardScaler_transform(pl.after_fit[2],
                              Imputer_transform(pl.after_fit[1], pl.X_test)))

\* predictions were printed by a classifier fitted on data that the scaler
\* changed, the test row being changed by the scaler as well
C7_Witness ==
    /\ pl.pc = "printed"
    /\ Len(pl.log) = 8
    /\ pl.log[5].in # pl.X_train
    /\ pl.steps[2].scale_[1] # Num(1)
    /\ pl.log[8].in # pl.X_test
    /\ pl.log[8].in = pl.log[7].out

(***************************************************************************)
(* Library calls of the Titanic cells.                                     *)
(***************************************************************************)
\* an int argument (random_state=0); None is the argument left out
IntArg(i) == [kind |-> "int", v |-> i]

\* X.iloc[ind] for a frame: the rows keep their labels
TakeFrame(X, ind) ==
    [cols |-> X.cols, idx |-> [k \in 1..Len(ind) |-> X.idx[ind[k]]],
     rows |-> [k \in 1..Len(ind) |-> X.rows[ind[k]]]]

\* the k-th of the 2n permutations of Rotations(n)
Rotation(k, n) ==
    IF k < n THEN [i \in 1..n |-> ((i - 1 + k) % n) + 1]
    ELSE [i \in 1..n |-> n - ((i - 1 + k) % n)]

\* numpy's generator: what a generator in the state s draws is a function
\* of s; tt.mt names the function, one of a family of 2n
rng_permutation(s, n) == Rotation((tt.mt + s) % (2 * n), n)

rng_choice(s) == (tt.mt + s) % 2

Total(counts) == SeqSum([c \in 1..Len(counts) |-> Num(counts[c])]).n

\* _approximate_mode(class_counts, n_draws, rng) for one or two classes:
\* n_draws shared out in proportion to the counts, rounded down; a draw
\* left over goes to the class of the largest remainder, the generator
\* choosing between equal ones
LeftOver(counts, n_draws) ==
    n_draws - Total([c \in 1..Len(counts) |-> (counts[c] * n_draws) \div Total(counts)])

Favoured(counts, n_draws, s) ==
    IF Len(counts) = 1 THEN 1
    ELSE IF (counts[1] * n_draws) % Total(counts) > (counts[2] * n_draws) % Total(counts)
         THEN 1
    ELSE IF (counts[1] * n_draws) % Total(counts) < (counts[2] * n_draws) % Total(counts)
         THEN 2
    ELSE 1 + rng_choice(s)

approximate_mode(counts, n_draws, s) ==
    [c \in 1..Len(counts) |->
        (counts[c] * n_draws) \div Total(counts)
        + (IF LeftOver(counts, n_draws) > 0 /\ c = Favoured(counts, n_draws, s)
           THEN 1 ELSE 0)]

\* the positions of the rows of class c, in the order of perm
ClassMembers(y, c, perm) == SelectSeq(perm, LAMBDA i : y[i] = c)

ClassCounts(y, classes) == [c \in 1..Len(classes) |-> Count(y, classes[c])]

\* StratifiedShuffleSplit: of each class, in the order the generator
\* draws, the first n_i rows go to the training set and the next t_i to the
\* test set
StratifiedPick(y, classes, perm, n_i, t_i) ==
    [train |-> SelectSeq(perm, LAMBDA i :
                  \E c \in 1..Len(classes) :
                      \E r \in 1..n_i[c] : ClassMembers(y, classes[c], perm)[r] = i),
     test  |-> SelectSeq(perm, LAMBDA i :
                  \E c \in 1..Len(classes) :
                      \E r \in (n_i[c] + 1)..(n_i[c] + t_i[c]) :
                          ClassMembers(y, classes[c], perm)[r] = i)]

StratifiedShuffleSplit(y, s) ==
    With(SortedUnique(y), LAMBDA classes :
    With(ClassCounts(y, classes), LAMBDA counts :
    With(rng_permutation(s, Len(y)), LAMBDA perm :
    With(approximate_mode(counts, n_train(Len(y)), s), LAMBDA n_i :
    With(approximate_mode([c \in 1..Len(counts) |-> counts[c] - n_i[c]],
                          n_test(Len(y)), s), LAMBDA t_i :
        StratifiedPick(y, classes, perm, n_i, t_i))))))

\* train_test_split(X, y, stratify=y, random_state=...): the positions of
\* the training and of the test rows; g is the state of numpy's global
\* generator, used when no random_state is given
\* (a variant with a slip first)
train_test_split_GlobalState(y, random_state, g) == StratifiedShuffleSplit(y, g)

train_test_split(y, random_state, g) ==
    StratifiedShuffleSplit(y, IF random_state.kind = "int" THEN random_state.v ELSE g)

\* StratifiedKFold(cv), no shuffle: the fold of the r-th row (from 0) of a
\* class of c rows; the rows of a class are dealt in blocks, as KFold does
\* with max(c, cv) rows
BlockOf(r, m, k) ==
    IF r < (m % k) * (m \div k + 1) THEN r \div (m \div k + 1)
    ELSE (m % k) + (r - (m % k) * (m \div k + 1)) \div (m \div k)

test_folds(y, k) ==
    [i \in 1..Len(y) |->
        1 + BlockOf(Cardinality({j \in 1..(i - 1) : y[j] = y[i]}),
                    Max2(Count(y, y[i]), k), k)]

Positions(n, keep(_)) == SelectSeq([i \in 1..n |-> i], keep)

\* the rows a cross-validation round holds out, and those it fits on
\* (a variant with a slip first)
cv_train_All(folds, k) == Positions(Len(folds), LAMBDA i : TRUE)

cv_test(folds, k) == Positions(Len(folds), LAMBDA i : folds[i] = k)

cv_train(folds, k) == Positions(Len(folds), LAMBDA i : folds[i] # k)

\* Pipeline.fit of a pipeline of transformers: fit_transform of each step
\* in turn, on the output of the step before; the fitted steps and the
\* output of the last
RECURSIVE FitSteps(_, _, _, _)
FitStepsNext(done, todo, r, y) == FitSteps(Append(done, r.est), todo, r.out, y)

FitSteps(done, todo, X, y) ==
    IF todo = <<>> THEN [steps |-> done, out |-> X]
    ELSE With(fit_transform(Head(todo), X, y),
              LAMBDA r : FitStepsNext(done, Tail(todo), r, y))

\* Pipeline.transform: transform of each fitted step in turn
RECURSIVE TransformSteps(_, _)
TransformSteps(steps, X) ==
    IF steps = <<>> THEN X
    ELSE With(Estimator_transform(Head(steps), X),
              LAMBDA Xt : TransformSteps(Tail(steps), Xt))

\* RandomForestClassifier().fit: s stands for the random choices it makes,
\* params for the parameters the grid search sets
RandomForest_fit(self, X, y, s, params) ==
    [self EXCEPT !.fitted = TRUE, !.trained_on = <<X.rows, y, s, params>>]

\* accuracy_score(y_true, y_pred), not computed: the predictions are opaque
accuracy_score(y_true, y_pred) == [y_true |-> y_true, y_pred |-> y_pred]

\* Series.fillna(v, inplace=True) on the column col of X, for a scalar v
fillna_scalar(X, col, v) ==
    [X EXCEPT !.rows =
        [i \in 1..NRows(X) |->
            [j \in 1..NCols(X) |->
                IF j = ColPos(X, col) /\ IsNaN(X.rows[i][j]) THEN v ELSE X.rows[i][j]]]]

\* Series.fillna(s, inplace=True) on the column col of X, for a Series s
\* labelled 0, 1, ...: the two are aligned on their labels, and a missing
\* cell of the row labelled L takes s[L] if s has the label L
fillna_series(X, col, s) ==
    [X EXCEPT !.rows =
        [i \in 1..NRows(X) |->
            [j \in 1..NCols(X) |->
                IF /\ j = ColPos(X, col)
                   /\ IsNaN(X.rows[i][j])
                   /\ X.idx[i] \in 0..(Len(s) - 1)
                THEN s[X.idx[i] + 1] ELSE X.rows[i][j]]]]

\* X[names] = A: the cells of the named columns are those of the array A
AssignColumns(X, names, A) ==
    [X EXCEPT !.rows =
        [i \in 1..NRows(X) |->
            [j \in 1..NCols(X) |->
                IF \E k \in 1..Len(names) : names[k] = X.cols[j]
                THEN A.rows[i][CHOOSE k \in 1..Len(names) : names[k] = X.cols[j]]
                ELSE X.rows[i][j]]]]

HasMissing(X) == \E i \in 1..NRows(X) : \E j \in 1..NCols(X) : IsNaN(X.rows[i][j])

(***************************************************************************)
(* The two Titanic cells.  Both read titanic.csv, keep eight columns, pop  *)
(* Survived and split the rows with train_test_split(X, y, stratify=y,     *)
(* random_state=0).                                                        *)
(*  - the manual cell fills the missing values, encodes the categories and *)
(*    scales the numeric columns of X_train and X_test itself, then        *)
(*    searches a grid over a random forest;                                *)
(*  - the pipeline cell puts the same steps in full_pipeline and searches  *)
(*    the grid over the whole pipeline.                                    *)
(* GridSearchCV(cv=3).fit clones and fits the estimator on the training    *)
(* rows of each of three stratified folds and scores it on the rows held   *)
(* out, then refits it on all of X_train.  The cell is run twice (tt.runs),*)
(* the second run after the first.                                         *)
(***************************************************************************)
TitanicColumns ==
    <<"PassengerId", "Survived", "Pclass", "Sex", "Age", "SibSp", "Parch", "Fare",
      "Embarked">>

\* two files of eight passengers: in the first, the categories go with
\* Survived; in the second they do not, and Pclass has three values
TitanicFiles ==
    { MakeTable(TitanicColumns,
        << <<Num(1), Num(0), Num(3), Str("male"),   Num(2), Num(1), Num(0), Num(1), Str("S")>>,
           <<Num(2), Num(1), Num(1), Str("female"), Num(4), Num(1), Num(0), Num(4), Str("C")>>,
           <<Num(3), Num(1), Num(1), Str("female"), NaN,    Num(0), Num(0), Num(2), Str("C")>>,
           <<Num(4), Num(1), Num(1), Str("female"), Num(3), Num(1), Num(0), Num(5), NaN>>,
           <<Num(5), Num(0), Num(3), Str("male"),   Num(3), Num(0), Num(0), Num(1), Str("S")>>,
           <<Num(6), Num(0), Num(3), Str("male"),   NaN,    Num(0), Num(0), Num(1), Str("S")>>,
           <<Num(7), Num(0), Num(3), Str("male"),   Num(5), Num(0), Num(1), Num(2), Str("S")>>,
           <<Num(8), Num(1), Num(1), Str("female"), Num(1), Num(0), Num(2), Num(1), Str("C")>> >>),
      MakeTable(TitanicColumns,
        << <<Num(1), Num(0), Num(3), Str("male"),   Num(2), Num(1), Num(0), Num(1), NaN>>,
           <<Num(2), Num(1), Num(1), Str("female"), Num(4), Num(1), Num(0), Num(4), Str("C")>>,
           <<Num(3), Num(1), Num(3), Str("female"), NaN,    Num(0), Num(0), Num(2), Str("S")>>,
           <<Num(4), Num(0), Num(1), Str("male"),   Num(3), Num(1), Num(0), NaN,    Str("S")>>,
           <<Num(5), Num(0), Num(2), Str("male"),   NaN,    Num(0), Num(0), Num(1), Str("S")>>,
           <<Num(6), Num(0), Num(3), Str("female"), Num(1), Num(0), Num(0), Num(1), Str("C")>>,
           <<Num(7), Num(0), Num(3), Str("male"),   Num(5), Num(0), Num(1), Num(2), Str("S")>>,
           <<Num(8), Num(1), Num(2), Str("female"), Num(1), Num(0), Num(2), Num(1), NaN>> >>) }

SelectedColumns ==
    <<"Sex", "Embarked", "Pclass", "Fare", "Age", "SibSp", "Parch", "Survived">>

\* train_test_split(..., random_state=0)
random_state == 0

\* GridSearchCV(..., cv=3)
cv == 3

\* the states numpy's global generator may be in when a cell is run
MaxSeed == 1

\* the cells of the two runs
RunPairs == {<<"manual", "manual">>, <<"manual", "pipeline">>, <<"pipeline", "pipeline">>}

num_pipeline ==
    <<NewObj(1, "CustomSelector", FALSE), NewEstimator("Imputer"),
      NewEstimator("StandardScaler")>>

cat_pipeline ==
    <<NewObj(2, "CustomSelector", TRUE), NewObj(3, "CustomCategoricalImputer", FALSE),
      NewObj(4, "CustomCategoricalEncoder", FALSE)>>

features_to_scale == <<"Fare", "Age", "SibSp", "Parch">>

\* a fitted estimator of the grid search: the fitted steps of the two
\* pipelines of the union (none in the manual cell), the forest, and the
\* number of columns the forest was fitted on
FittedModel(num, cat, Xt, y, s, params) ==
    [num |-> num, cat |-> cat,
     rf  |-> RandomForest_fit(NewEstimator("RandomForestClassifier"), Xt, y, s, params),
     n_features |-> NCols(Xt)]

NoModel ==
    [num |-> <<>>, cat |-> <<>>, rf |-> NewEstimator("RandomForestClassifier"),
     n_features |-> 0]

\* full_pipeline.fit(X, y): the union fits and transforms with both
\* pipelines and stacks the two outputs; the forest is fitted on the stack
full_pipeline_fit_union(n, c, y, s, params) ==
    With(np_hstack(<<n.out, c.out>>),
         LAMBDA Xt : FittedModel(n.steps, c.steps, Xt, y, s, params))

full_pipeline_fit(X, y, s, params) ==
    With(FitSteps(<<>>, num_pipeline, X, y), LAMBDA n :
    With(FitSteps(<<>>, cat_pipeline, X, y), LAMBDA c :
        full_pipeline_fit_union(n, c, y, s, params)))

\* what the fitted union makes of X
full_pipeline_transform(f, X) ==
    With(X, LAMBDA T :
        With(<<TransformSteps(f.num, T), TransformSteps(f.cat, T)>>, np_hstack))

\* the estimator the cell hands to GridSearchCV: full_pipeline, or rf
Model_fit(approach, X, y, s, params) ==
    IF approach = "pipeline" THEN full_pipeline_fit(X, y, s, params)
    ELSE FittedModel(<<>>, <<>>, X, y, s, params)

Model_transform(f, X) == IF f.num = <<>> THEN X ELSE full_pipeline_transform(f, X)

\* lines 385-391: the missing values of T are filled from the values of S
ManualFill(T, S) ==
    fillna_series(
        fillna_scalar(
            fillna_scalar(T, "Fare", MedianOf(Column(S, ColPos(S, "Fare")))),
            "Age", MedianOf(Column(S, ColPos(S, "Age")))),
        "Embarked", ModesOf(Column(S, ColPos(S, "Embarked"))))

\* lines 394-400: one dummy column for each category but the first
RECURSIVE EncodeFrame(_, _)
EncodeFrame(T, todo) ==
    IF todo = <<>> THEN T
    ELSE EncodeFrame(drop(pd_concat(T, get_dummies(T, Head(todo))), Head(todo)),
                     Tail(todo))

NewRun(a) ==
    [approach |-> a, pc |-> "start", g |-> 0, X |-> NoTable, y |-> <<>>,
     X_train |-> NoTable, X_test |-> NoTable, y_train |-> <<>>, y_test |-> <<>>,
     split |-> [train |-> <<>>, test |-> <<>>],
     scaler |-> NewEstimator("StandardScaler"),
     folds |-> <<>>, fold |-> 0, rounds |-> <<>>, best |-> NoModel,
     y_pred |-> <<>>, score |-> accuracy_score(<<>>, <<>>), exc |-> ""]

InitTitanic ==
    /\ HarnessIdle
    /\ fu = Idle
    /\ pl = Idle
    /\ nb = Idle
    /\ \E f \in TitanicFiles, ab \in RunPairs :
           \E m \in 0..(2 * NRows(f) - 1) :
               tt = [df |-> f, mt |-> m, runs |-> <<NewRun(ab[1]), NewRun(ab[2])>>]

Finished == {"printed", "error"}

\* the run in progress
Cur == IF tt.runs[1].pc \in Finished THEN 2 ELSE 1

R == tt.runs[Cur]

SetRun(r) ==
    /\ tt' = [tt EXCEPT !.runs[Cur] = r]
    /\ UNCHANGED <<harnessVars, fu, pl, nb>>

Loaded(g, F) ==
    SetRun([R EXCEPT !.pc = "loaded", !.g = g,
                     !.y = Column(F, ColPos(F, "Survived")),
                     !.X = drop(F, "Survived")])

\* df = pd.read_csv(...); df_features = df[[...]]; y = df_features.pop(
\* 'Survived'); X = df_features.  g is the state the global generator is in
Load ==
    /\ R.pc = "start"
    /\ \E g \in 0..MaxSeed : Loaded(g, Select(tt.df, SelectedColumns))

Labelled(X, ind) == [k \in 1..Len(ind) |-> X.idx[ind[k]]]

Splitted(ix) ==
    SetRun([R EXCEPT !.pc = "split",
                     !.X_train = TakeFrame(R.X, ix.train),
                     !.X_test = TakeFrame(R.X, ix.test),
                     !.y_train = TakeSeq(R.y, ix.train),
                     !.y_test = TakeSeq(R.y, ix.test),
                     !.split = [train |-> Labelled(R.X, ix.train),
                                test |-> Labelled(R.X, ix.test)]])

\* train_test_split(X, y, stratify=y, random_state=0)
Split ==
    /\ R.pc = "loaded"
    /\ Splitted(train_test_split(R.y, IntArg(random_state), R.g))

\* the manual cell, lines 385-391
Impute ==
    /\ R.pc = "split"
    /\ R.approach = "manual"
    /\ SetRun([R EXCEPT !.pc = "imputed",
                        !.X_train = ManualFill(R.X_train, R.X_test),
                        !.X_test = ManualFill(R.X_test, R.X_test)])

\* the manual cell, lines 394-400
Encode ==
    /\ R.pc = "imputed"
    /\ SetRun([R EXCEPT !.pc = "encoded",
                        !.X_train = EncodeFrame(R.X_train, <<"Sex", "Embarked", "Pclass">>),
                        !.X_test = EncodeFrame(R.X_test, <<"Sex", "Embarked", "Pclass">>)])

Scaled(sc) ==
    SetRun([R EXCEPT !.pc = "search", !.scaler = sc,
                     !.X_train = AssignColumns(R.X_train, features_to_scale,
                                     StandardScaler_transform(sc,
                                         Select(R.X_train, features_to_scale))),
                     !.X_test = AssignColumns(R.X_test, features_to_scale,
                                    StandardScaler_transform(sc,
                                        Select(R.X_test, features_to_scale))),
                     !.fold = 1, !.folds = test_folds(R.y_train, cv)])

\* the manual cell, lines 403-418: StandardScaler takes no missing value
Scale ==
    /\ R.pc = "encoded"
    /\ IF \/ HasMissing(Select(R.X_train, features_to_scale))
          \/ HasMissing(Select(R.X_test, features_to_scale))
       THEN SetRun([R EXCEPT !.pc = "error", !.exc = "ValueError"])
       ELSE Scaled(StandardScaler_fit(R.scaler, Select(R.X_train, features_to_scale)))

\* the pipeline cell, lines 515-546: the pipelines and the grid are built
Build ==
    /\ R.pc = "split"
    /\ R.approach = "pipeline"
    /\ SetRun([R EXCEPT !.pc = "search", !.fold = 1,
                        !.folds = test_folds(R.y_train, cv)])

Round(kind, fit_rows, heldout, f, Xt, y_true) ==
    [kind |-> kind, fit_rows |-> fit_rows, heldout |-> heldout, model |-> f,
     Xt |-> Xt, score |-> accuracy_score(y_true, Classifier_predict(f.rf, Xt))]

\* the forest takes as many columns as it was fitted on
Scored(rnd) ==
    IF NCols(rnd.Xt) # rnd.model.n_features
    THEN SetRun([R EXCEPT !.pc = "error", !.exc = "ValueError",
                          !.rounds = Append(R.rounds, rnd)])
    ELSE SetRun([R EXCEPT !.fold = R.fold + 1, !.rounds = Append(R.rounds, rnd)])

CVScore(tr, te, f) ==
    Scored(Round("cv", Labelled(R.X_train, tr), Labelled(R.X_train, te), f,
                 Model_transform(f, TakeFrame(R.X_train, te)), TakeSeq(R.y_train, te)))

CVFit(tr, te) ==
    CVScore(tr, te,
            Model_fit(R.approach, TakeFrame(R.X_train, tr), TakeSeq(R.y_train, tr),
                      R.g, "grid"))

\* one round of the grid search: a clone of the estimator is fitted on the
\* rows outside the fold and scored on the rows of the fold
CVFold ==
    /\ R.pc = "search"
    /\ R.fold <= cv
    /\ CVFit(cv_train(R.folds, R.fold), cv_test(R.folds, R.fold))

\* the best parameters, then a clone is fitted on all of X_train
Refit ==
    /\ R.pc = "search"
    /\ R.fold = cv + 1
    /\ SetRun([R EXCEPT !.pc = "fitted",
                        !.best = Model_fit(R.approach, R.X_train, R.y_train, R.g,
                                     [i \in 1..Len(R.rounds) |-> R.rounds[i].score])])

Predicted(rnd) ==
    IF NCols(rnd.Xt) # rnd.model.n_features
    THEN SetRun([R EXCEPT !.pc = "error", !.exc = "ValueError",
                          !.rounds = Append(R.rounds, rnd)])
    ELSE SetRun([R EXCEPT !.pc = "printed", !.rounds = Append(R.rounds, rnd),
                          !.y_pred = Classifier_predict(rnd.model.rf, rnd.Xt),
                          !.score = rnd.score])

\* y_pred = grid.predict(X_test); print(accuracy_score(y_test, y_pred))
Predict ==
    /\ R.pc = "fitted"
    /\ Predicted(Round("test", R.split.train, R.split.test, R.best,
                       Model_transform(R.best, R.X_test), R.y_test))

NextTitanic ==
    \/ Load
    \/ Split
    \/ Impute
    \/ Encode
    \/ Scale
    \/ Build
    \/ CVFold
    \/ Refit
    \/ Predict

SpecTitanic == InitTitanic /\ [][NextTitanic]_vars

Runs == {1, 2}

\* the rows of X with the given labels
RowsLabelled(X, labels) ==
    TakeFrame(X, [k \in 1..Len(labels) |-> CHOOSE i \in 1..NRows(X) : X.idx[i] = labels[k]])

Range(q) == {q[k] : k \in 1..Len(q)}

\* the statistics of a fitted full_pipeline are those of the rows T: the
\* medians of the numeric columns, the mean and the deviation of the
\* columns once imputed, the most frequent categories
NumericStatisticsOf(f, N, I) ==
    /\ f.num[2].statistics_ = [j \in 1..NCols(N) |-> MedianOf(Column(N, j))]
    /\ I = Imputer_transform(f.num[2], N)
    /\ f.num[3].mean_ = np_mean(I)
    /\ f.num[3].scale_ = HandleZeros(np_std(I))

StatisticsOf(f, T) ==
    /\ With(Select(T, NumericalFeatures), LAMBDA N :
            With(Imputer_transform(f.num[2], N), LAMBDA I :
                NumericStatisticsOf(f, N, I)))
    /\ f.cat[2].fill.cols = CategoricalFeatures
    /\ With(Select(T, CategoricalFeatures),
            LAMBDA C : f.cat[2].fill.vals = mode_iloc0(C).vals)

\* C8: in the pipeline cell, in each round of the grid search and for the
\* test partition, the rows held out are none of the rows the pipeline was
\* fitted on, the medians, means, deviations and most frequent categories
\* of the fitted pipeline are those of the rows it was fitted on (training
\* rows that are not held out), and the rows held out are transformed with
\* these statistics.
C8_NoLeakage ==
    \A r \in Runs :
        tt.runs[r].approach = "pipeline" =>
            /\ \A k \in 1..Len(tt.runs[r].rounds) :
                   /\ Range(tt.runs[r].rounds[k].fit_rows)
                          \cap Range(tt.runs[r].rounds[k].heldout) = {}
                   /\ Range(tt.runs[r].rounds[k].fit_rows)
                          \subseteq Range(tt.runs[r].split.train)
                   /\ Range(tt.runs[r].rounds[k].fit_rows)
                          \cap Range(tt.runs[r].split.test) = {}
                   /\ With(RowsLabelled(tt.runs[r].X, tt.runs[r].rounds[k].fit_rows),
                           LAMBDA T : StatisticsOf(tt.runs[r].rounds[k].model, T))
                   /\ tt.runs[r].rounds[k].Xt =
                          full_pipeline_transform(tt.runs[r].rounds[k].model,
                              RowsLabelled(tt.runs[r].X, tt.runs[r].rounds[k].heldout))
            /\ tt.runs[r].pc \in {"fitted", "printed"} =>
                   With(RowsLabelled(tt.runs[r].X, tt.runs[r].split.train),
                        LAMBDA T : StatisticsOf(tt.runs[r].best, T))

\* a run of the pipeline cell printed its score after three rounds of
\* cross-validation, and in one of the rounds the rows held out would have
\* changed the statistics
C8_Witness ==
    \E r \in Runs :
        /\ tt.runs[r].approach = "pipeline"
        /\ tt.runs[r].pc = "printed"
        /\ Len(tt.runs[r].rounds) = cv + 1
        /\ tt.runs[r].rounds[cv + 1].kind = "test"
        /\ ~StatisticsOf(tt.runs[r].rounds[cv + 1].model, tt.runs[r].X)
        /\ \E k \in 1..cv :
               ~StatisticsOf(tt.runs[r].rounds[k].model, tt.runs[r].X_train)

\* C9: two runs of a Titanic cell on the same file split the rows into the
\* same training and test partitions, whichever the cell; two runs of the
\* same cell in which the forest makes the same random choices come to the
\* same end, with the same predictions and the same score.
C9_Deterministic ==
    /\ (tt.runs[1].pc \notin {"start", "loaded"} /\ tt.runs[2].pc \notin {"start", "loaded"})
           => tt.runs[1].split = tt.runs[2].split
    /\ ( /\ tt.runs[1].pc \in Finished
         /\ tt.runs[2].pc \in Finished
         /\ tt.runs[1].approach = tt.runs[2].approach
         /\ tt.runs[1].g = tt.runs[2].g )
           => /\ tt.runs[1].pc = tt.runs[2].pc
              /\ tt.runs[1].exc = tt.runs[2].exc
              /\ tt.runs[1].y_pred = tt.runs[2].y_pred
              /\ tt.runs[1].score = tt.runs[2].score

\* the manual cell and the pipeline cell both printed a score for two test
\* rows, the global generator being in different states
C9_Witness ==
    /\ tt.runs[1].pc = "printed"
    /\ tt.runs[2].pc = "printed"
    /\ tt.runs[1].approach # tt.runs[2].approach
    /\ tt.runs[1].g # tt.runs[2].g
    /\ Len(tt.runs[1].split.test) = 2
    /\ tt.runs[1].split = tt.runs[2].split
    /\ Len(tt.runs[1].y_pred) = 2

(***************************************************************************)
(* The kernel.  The five code cells run in one Python process, in any      *)
(* order and any number of times (MaxCellRuns runs here); a run executes   *)
(* the statements of the cell in order and stops at the first exception.   *)
(* What the cells share is the namespace of the kernel and the state of    *)
(* the imported modules, of which one cell sets the pandas option          *)
(* mode.chained_assignment.  A statement is [line, writes, reads, prints,  *)
(* opt]: the names it binds or changes, the names it reads (those read by  *)
(* the functions it calls included), whether it prints, and whether it     *)
(* sets ("set") or depends on ("read") the pandas option.                  *)
(***************************************************************************)
Stmt(line, writes, reads, prints, opt) ==
    [line |-> line, writes |-> writes, reads |-> reads, prints |-> prints, opt |-> opt]

Import(line, names) == Stmt(line, names, {}, FALSE, "")

Assign(line, writes, reads) == Stmt(line, writes, reads, FALSE, "")

\* lines 115-136
cell_minimal_pipeline ==
    << Import(115, {"Pipeline"}),
       Import(116, {"train_test_split"}),
       Import(117, {"StandardScaler", "Imputer"}),
       Import(118, {"LogisticRegression"}),
       Import(119, {"make_classification"}),
       Assign(121, {"pipeline"}, {"Pipeline", "Imputer", "StandardScaler", "LogisticRegression"}),
       Assign(128, {"X", "y"}, {"make_classification"}),
       Assign(131, {"X_train", "X_test", "y_train", "y_test"}, {"train_test_split", "X", "y"}),
       Assign(134, {"pipeline"}, {"pipeline", "X_train", "y_train"}),
       Assign(135, {"y_pred"}, {"pipeline", "X_test"}),
       Stmt(136, {}, {"y_pred"}, TRUE, "") >>

\* lines 180-191
cell_feature_union ==
    << Import(180, {"np"}),
       Import(181, {"FunctionTransformer"}),
       Import(182, {"FeatureUnion"}),
       Assign(185, {"X"}, {"np"}),
       Assign(187, {"feat_union"}, {"FeatureUnion", "FunctionTransformer", "np"}),
       Stmt(191, {"feat_union"}, {"feat_union", "X"}, TRUE, "") >>

\* lines 245-278
cell_my_scaler ==
    << Import(245, {"TransformerMixin", "BaseEstimator"}),
       Import(246, {"np"}),
       Assign(248, {"MyScaler"}, {"TransformerMixin", "BaseEstimator"}) >>

\* lines 364-423, "The Non-Pipeline Way"; the fillna calls of lines 385-391
\* work on a column of a frame that train_test_split cut out of X, which
\* pandas reports or not according to mode.chained_assignment
cell_manual_way ==
    << Import(364, {"np"}),
       Import(365, {"pd"}),
       Import(366, {"train_test_split", "GridSearchCV"}),
       Import(367, {"StandardScaler"}),
       Import(368, {"RandomForestClassifier"}),
       Import(369, {"accuracy_score"}),
       Stmt(371, {}, {"pd"}, FALSE, "set"),
       Assign(374, {"df"}, {"pd"}),
       Assign(377, {"df_features"}, {"df"}),
       Assign(380, {"y", "df_features"}, {"df_features"}),
       Assign(381, {"X"}, {"df_features"}),
       Assign(382, {"X_train", "X_test", "y_train", "y_test"}, {"train_test_split", "X", "y"}),
       Stmt(385, {"X_train"}, {"X_train", "X_test"}, FALSE, "read"),
       Stmt(386, {"X_train"}, {"X_train", "X_test"}, FALSE, "read"),
       Stmt(387, {"X_train"}, {"X_train", "X_test"}, FALSE, "read"),
       Stmt(389, {"X_test"}, {"X_test"}, FALSE, "read"),
       Stmt(390, {"X_test"}, {"X_test"}, FALSE, "read"),
       Stmt(391, {"X_test"}, {"X_test"}, FALSE, "read"),
       Assign(394, {"col", "X_train", "X_test"}, {"pd", "X_train", "X_test"}),
       Assign(403, {"features_to_scale"}, {}),
       Assign(404, {"scaler"}, {"StandardScaler"}),
       Assign(405, {"scaler"}, {"scaler", "X_train", "features_to_scale"}),
       Assign(406, {"X_train"}, {"scaler", "X_train", "features_to_scale"}),
       Assign(407, {"X_test"}, {"scaler", "X_test", "features_to_scale"}),
       Assign(410, {"random_forest_param_list"}, {"np"}),
       Assign(417, {"rf"}, {"RandomForestClassifier"}),
       Assign(418, {"g"}, {"GridSearchCV", "rf", "random_forest_param_list"}),
       Assign(419, {"g"}, {"g", "X_train", "y_train"}),
       Assign(422, {"y_pred"}, {"g", "X_test"}),
       Stmt(423, {}, {"accuracy_score", "y_test", "y_pred"}, TRUE, "") >>

\* lines 455-462 (a variant with a slip first: no import of numpy)
pipeline_way_imports_NoNumpy ==
    << Import(456, {"pd"}),
       Import(457, {"Pipeline", "FeatureUnion"}),
       Import(458, {"BaseEstimator", "TransformerMixin"}),
       Import(459, {"train_test_split", "GridSearchCV"}),
       Import(460, {"Imputer", "StandardScaler"}),
       Import(461, {"RandomForestClassifier"}),
       Import(462, {"accuracy_score"}) >>

pipeline_way_imports ==
    << Import(455, {"np"}),
       Import(456, {"pd"}),
       Import(457, {"Pipeline", "FeatureUnion"}),
       Import(458, {"BaseEstimator", "TransformerMixin"}),
       Import(459, {"train_test_split", "GridSearchCV"}),
       Import(460, {"Imputer", "StandardScaler"}),
       Import(461, {"RandomForestClassifier"}),
       Import(462, {"accuracy_score"}) >>

\* lines 455-551, "The Pipeline Way"; grid.fit and grid.predict call the
\* methods of the custom transformers, which read pd when they are called
cell_pipeline_way ==
    pipeline_way_imports \o
    << Assign(465, {"CustomSelector"}, {"TransformerMixin", "BaseEstimator"}),
       Assign(480, {"CustomCategoricalImputer"}, {"TransformerMixin", "BaseEstimator"}),
       Assign(490, {"CustomCategoricalEncoder"}, {"TransformerMixin", "BaseEstimator"}),
       Assign(504, {"df"}, {"pd"}),
       Assign(507, {"df_features"}, {"df"}),
       Assign(510, {"y", "df_features"}, {"df_features"}),
       Assign(511, {"X"}, {"df_features"}),
       Assign(512, {"X_train", "X_test", "y_train", "y_test"}, {"train_test_split", "X", "y"}),
       Assign(515, {"num_pipeline"}, {"Pipeline", "CustomSelector", "Imputer", "StandardScaler"}),
       Assign(522, {"cat_pipeline"},
              {"Pipeline", "CustomSelector", "CustomCategoricalImputer",
               "CustomCategoricalEncoder"}),
       Assign(529, {"full_pipeline"},
              {"Pipeline", "FeatureUnion", "num_pipeline", "cat_pipeline",
               "RandomForestClassifier"}),
       Assign(538, {"random_forest_param_list"}, {"np"}),
       Assign(546, {"grid"}, {"GridSearchCV", "full_pipeline", "random_forest_param_list"}),
       Assign(547, {"grid"}, {"grid", "X_train", "y_train", "pd"}),
       Assign(550, {"y_pred"}, {"grid", "X_test", "pd"}),
       Stmt(551, {}, {"accuracy_score", "y_test", "y_pred"}, TRUE, "") >>

\* the code cells, top to bottom
Cells ==
    <<cell_minimal_pipeline, cell_feature_union, cell_my_scaler, cell_manual_way,
      cell_pipeline_way>>

\* how many times a cell is run
MaxCellRuns == 3

\* every name a cell binds or reads
NameSet ==
    UNION {UNION {Cells[c][i].writes \cup Cells[c][i].reads : i \in 1..Len(Cells[c])} :
              c \in 1..Len(Cells)}

\* A binding records which statement, of which run of which cell, gave a
\* name (or the pandas option) its value, and whether that value is the one
\* the statement gives it when the notebook is run top to bottom.
Binding(c, line, run, same) == [cell |-> c, line |-> line, run |-> run, same |-> same]

\* a name the kernel does not know
Unbound == Binding(0, 0, 0, FALSE)

\* pandas starts with mode.chained_assignment = 'warn'
DefaultOption == Binding(0, 0, 0, TRUE)

\* a kernel after start-up: nothing bound, nothing printed
NewKernel ==
    [ns |-> [n \in NameSet |-> Unbound], opt |-> DefaultOption, out |-> <<>>, err |-> FALSE]

\* the bindings a statement depends on
ReadsOf(k, s) ==
    {k.ns[n] : n \in s.reads} \cup (IF s.opt = "read" THEN {k.opt} ELSE {})

\* b holds the value that e holds in the run top to bottom: the same
\* statement wrote it, from the same values, in this run of the cell when
\* the statement is one of the cell itself
Faithful(b, e, c, run) ==
    /\ b.cell = e.cell
    /\ b.line = e.line
    /\ b.same
    /\ e.cell = c => b.run = run

\* One statement s of run number run of cell c, on kernel k; expect is the
\* kernel the statement meets in the run top to bottom (trusting: this is
\* that run).  A name that is not bound raises NameError, which ends the
\* cell; otherwise the statement binds its names and prints.
ExecStmt(k, c, s, run, expect, trusting) ==
    IF \E n \in s.reads : k.ns[n] = Unbound
    THEN [k EXCEPT !.err = TRUE,
                   !.out = Append(@, [line |-> s.line, text |-> "NameError"])]
    ELSE With(Binding(c, s.line, run,
                      \/ trusting
                      \/ /\ \A n \in s.reads : Faithful(k.ns[n], expect.ns[n], c, run)
                         /\ s.opt = "read" => Faithful(k.opt, expect.opt, c, run)),
              LAMBDA b :
                 [ns  |-> [n \in NameSet |-> IF n \in s.writes THEN b ELSE k.ns[n]],
                  opt |-> IF s.opt = "set" THEN b ELSE k.opt,
                  out |-> IF s.prints
                          THEN Append(k.out, [line |-> s.line,
                                              text |-> IF b.same THEN "as top to bottom"
                                                                 ELSE "other"])
                          ELSE k.out,
                  err |-> FALSE])

\* a cell starts with an empty output area
StartCell(k) == [k EXCEPT !.out = <<>>, !.err = FALSE]

\* statements lo..hi of cell c in the run top to bottom, on kernel k; the
\* cell ends at its first exception
RECURSIVE Statements(_, _, _, _)
Statements(k, c, lo, hi) ==
    IF lo > hi THEN k
    ELSE IF lo = hi
    THEN IF k.err THEN k ELSE ExecStmt(k, c, Cells[c][lo], c, k, TRUE)
    ELSE With(Statements(k, c, lo, (lo + hi) \div 2),
              LAMBDA k1 : Statements(k1, c, (lo + hi) \div 2 + 1, hi))

\* the run top to bottom: the kernel after statements 1..i of cell c, the
\* cells above it having been run
RECURSIVE TopToBottom(_, _)
TopToBottom(c, i) ==
    With(IF c = 1 THEN NewKernel ELSE StartCell(TopToBottom(c - 1, Len(Cells[c - 1]))),
         LAMBDA k : Statements(k, c, 1, i))

\* what a cell shows in the run top to bottom
Shown(k) == [out |-> k.out, err |-> k.err]

Expected == [c \in 1..Len(Cells) |-> Shown(TopToBottom(c, Len(Cells[c])))]

\* the kernel each statement meets in the run top to bottom
Met == [c \in 1..Len(Cells) |-> [i \in 1..Len(Cells[c]) |-> TopToBottom(c, i - 1)]]

\* the names and options a statement reads that were not written by the
\* run of the cell it belongs to
Foreign(k, c, s, run) ==
    {b \in ReadsOf(k, s) : b.cell # 0 /\ (b.cell # c \/ b.run # run)}

InitCells ==
    /\ HarnessIdle
    /\ fu = Idle
    /\ pl = Idle
    /\ tt = Idle
    /\ nb = [pc |-> "idle", cell |-> 0, idx |-> 0, history |-> <<>>, k |-> NewKernel,
             foreign |-> {}]

\* the user runs a cell: any cell, once no cell is running
RunCell(c) ==
    /\ nb.pc \in {"idle", "done"}
    /\ Len(nb.history) < MaxCellRuns
    /\ nb' = [nb EXCEPT !.pc = "running", !.cell = c, !.idx = 1,
                        !.history = Append(@, c), !.k = StartCell(@), !.foreign = {}]
    /\ UNCHANGED <<harnessVars, fu, pl, tt>>

\* the kernel executes the next statement of the running cell
ExecuteStatement ==
    /\ nb.pc = "running"
    /\ nb' = With(ExecStmt(nb.k, nb.cell, Cells[nb.cell][nb.idx], Len(nb.history),
                           Met[nb.cell][nb.idx], FALSE),
                  LAMBDA k :
                     [nb EXCEPT
                        !.k = k,
                        !.foreign = @ \cup Foreign(nb.k, nb.cell, Cells[nb.cell][nb.idx],
                                                   Len(nb.history)),
                        !.pc = IF k.err \/ nb.idx = Len(Cells[nb.cell])
                               THEN "done" ELSE "running",
                        !.idx = IF k.err \/ nb.idx = Len(Cells[nb.cell]) THEN @ ELSE @ + 1])
    /\ UNCHANGED <<harnessVars, fu, pl, tt>>

NextCells == (\E c \in 1..Len(Cells) : RunCell(c)) \/ ExecuteStatement

SpecCells == InitCells /\ [][NextCells]_vars

\* C10: no state is shared between the code cells.  Whatever cells were run
\* before, in whatever order and however often, a statement of a running
\* cell reads no name and no library option that was written outside this
\* run of its cell, no name it reads is unbound, and a cell that has run to
\* its end shows what it shows when the notebook is run top to bottom.
C10_CellsIndependent ==
    /\ nb.pc # "idle" => nb.foreign = {} /\ ~nb.k.err
    /\ nb.pc = "done" => Shown(nb.k) = Expected[nb.cell]

\* the manual Titanic cell re-run after the pipeline Titanic cell, which left
\* df, X, y, the split and y_pred behind, has printed its accuracy
C10_Witness ==
    /\ nb.pc = "done"
    /\ nb.history = <<4, 5, 4>>
    /\ nb.k.out = <<[line |-> 423, text |-> "as top to bottom"]>>
    /\ nb.k.opt.run = 3

\* the manual runs that have filled the missing values and done no more
JustImputed == {r \in Runs : tt.runs[r].approach = "manual" /\ tt.runs[r].pc = "imputed"}

\* the training partition as train_test_split returned it
RawTrain(r) == RowsLabelled(tt.runs[r].X, tt.runs[r].split.train)

\* the test partition as train_test_split returned it
RawTest(r) == RowsLabelled(tt.runs[r].X, tt.runs[r].split.test)

\* C11: in the manual cell every value written into the training partition
\* is computed from the training partition only: once the missing values
\* are filled, X_train is the training partition with its missing Fare, Age
\* and Embarked filled from the median, median and mode of the training
\* partition itself, so the test rows have no part in it.
C11_TrainFilledFromTrain ==
    \A r \in JustImputed :
        With(RawTrain(r), LAMBDA T : tt.runs[r].X_train = ManualFill(T, T))

\* the manual runs that have encoded the categories
Encoded ==
    {r \in Runs : /\ tt.runs[r].approach = "manual"
                  /\ tt.runs[r].pc \notin {"start", "loaded", "split", "imputed"}}

\* the columns cat_pipeline, fitted as in f, makes of the rows of X with
\* the given labels
EncodedColumns(f, X, labels) == TransformSteps(f.cat, RowsLabelled(X, labels)).cols

\* C12: one-hot encoding yields the same columns for every table: in the
\* manual cell the encoded X_train and X_test have the same column names in
\* the same order; in the pipeline cell, in every round of the grid search
\* and for the test partition, the fitted cat_pipeline returns the same
\* column names in the same order for the rows it was fitted on and for the
\* rows held out.
C12_SameColumns ==
    /\ \A r \in Encoded : tt.runs[r].X_train.cols = tt.runs[r].X_test.cols
    /\ \A r \in Runs :
           tt.runs[r].approach = "pipeline" =>
               \A k \in 1..Len(tt.runs[r].rounds) :
                   EncodedColumns(tt.runs[r].rounds[k].model, tt.runs[r].X,
                                  tt.runs[r].rounds[k].fit_rows)
                       = EncodedColumns(tt.runs[r].rounds[k].model, tt.runs[r].X,
                                        tt.runs[r].rounds[k].heldout)

\* the columns the manual cell fills
FilledColumns == <<"Fare", "Age", "Embarked">>

\* each of the filled columns of T has a present value
EachPresent(T) ==
    \A c \in 1..Len(FilledColumns) :
        \E i \in 1..NRows(T) : ~IsNaN(T.rows[i][ColPos(T, FilledColumns[c])])

\* C13: once the manual cell has filled the missing values, and before it
\* encodes, neither X_train nor X_test has a missing Fare, Age or Embarked,
\* for every input in which each of these columns has a present value in
\* each partition, whatever the labels of the rows.
C13_NoMissingAfterImpute ==
    \A r \in JustImputed :
        (EachPresent(RawTrain(r)) /\ EachPresent(RawTest(r)))
            => /\ ~HasMissing(Select(tt.runs[r].X_train, FilledColumns))
               /\ ~HasMissing(Select(tt.runs[r].X_test, FilledColumns))

\* the manual runs that have scaled X_train and X_test: the tables the grid
\* search and the forest are given
Preprocessed ==
    {r \in Runs : /\ tt.runs[r].approach = "manual"
                  /\ tt.runs[r].pc \in {"search", "fitted", "printed"}}

\* num_pipeline and cat_pipeline of feat_union fitted on the training
\* partition of run r
UnionFitted(r) ==
    With(RawTrain(r), LAMBDA T :
        <<FitSteps(<<>>, num_pipeline, T, tt.runs[r].y_train),
          FitSteps(<<>>, cat_pipeline, T, tt.runs[r].y_train)>>)

\* what the fitted union u makes of the table S
UnionTransform(u, S) ==
    np_hstack(<<TransformSteps(u[1].steps, S), TransformSteps(u[2].steps, S)>>)

\* the tables of the manual run r are those of the union u
SamePreprocessing(r, u) ==
    /\ tt.runs[r].X_train.cols = NumericalFeatures \o u[2].out.cols
    /\ tt.runs[r].X_train.rows = np_hstack(<<u[1].out, u[2].out>>).rows
    /\ With(RawTest(r), LAMBDA S : tt.runs[r].X_test.rows = UnionTransform(u, S).rows)

\* C14: the manual cell and the pipeline cell do the same preprocessing: on
\* the same file and the same split, the preprocessed X_train of the manual
\* cell and the output of feat_union fitted on the training partition have
\* the same columns in the same order and equal values, and so have the
\* preprocessed X_test and what the fitted feat_union makes of the test
\* partition.
C14_SamePreprocessing ==
    \A r \in Preprocessed : With(UnionFitted(r), LAMBDA u : SamePreprocessing(r, u))

====
